---- MODULE Spec2Model ----
(***************************************************************************)
(* The audio-translation server of backend/server.js: the audio-stream     *)
(* socket handler, processAudioPipeline and the provider adapters it       *)
(* drives (STT, language detection, translation router, synthesis chain).  *)
(* A state lies between two turns of the event loop: every job is either   *)
(* not yet received, suspended at an await with one provider call in       *)
(* flight, finished, or left pending by an exception nobody catches.       *)
(* The page of frontend/src/components/App.jsx is the other party: its     *)
(* recorder, its buttons and its handlers of the server's events.          *)
(***************************************************************************)
EXTENDS Integers, Sequences, FiniteSets, TLC

(* ------------------------------ bounds --------------------------------- *)

\* jobs (audio-stream events) the server receives in one run
NJobs == 2
Jobs == 1..NJobs

(* ------------------------- program constants --------------------------- *)

\* if (audioBuffer.length < 1000)
MinAudioBytes == 1000
\* if (response.data.byteLength < 100) / if (fallbackResponse.data.byteLength > 100)
MinTtsBytes == 100

UNDEF == "undefined"

\* a string of the program is a sequence of pieces; '' is << >>
EmptyString == << >>
\* the value of a variable that was never assigned
Undefined == <<UNDEF>>

NoAudioMessage == <<"No audio data received.">>
TooSmallMessage == <<"Audio buffer too small - may be empty">>
PipelineFailedPrefix == <<"Pipeline failed: ">>
AllSttFailedMessage == <<"All STT models failed.">>
MockSttText == <<"This is a test translation from the mock service">>
MockAudioBytes == 15
\* the browser: audioData.byteLength < 50
MinPlayableBytes == 50

\* a faulty variant: the high-accuracy model first
sttModelsReversed == <<"openai/whisper-large-v3", "openai/whisper-base">>

sttModels == <<"openai/whisper-base", "openai/whisper-large-v3">>

\* a faulty variant: the English-only model before the multilingual one
fallbackModelsReordered ==
    <<"microsoft/speecht5_tts", "suno/bark", "espnet/kan-bayashi_ljspeech_vits">>

fallbackModels == <<"suno/bark", "espnet/kan-bayashi_ljspeech_vits", "microsoft/speecht5_tts">>

modelMap(lang) ==
    CASE lang = "es" -> "facebook/mms-tts-spa"
      [] lang = "fr" -> "facebook/mms-tts-fra"
      [] lang = "de" -> "facebook/mms-tts-deu"
      [] lang = "ja" -> "facebook/mms-tts-jpn"
      [] lang = "hi" -> "facebook/mms-tts-hin"
      [] lang = "it" -> "facebook/mms-tts-ita"
      [] lang = "ru" -> "facebook/mms-tts-rus"
      [] lang = "zh" -> "facebook/mms-tts-cmn"
      [] lang = "ur" -> "facebook/mms-tts-urd"
      [] OTHER -> UNDEF

\* a faulty variant: const model = modelMap[targetLang] || 'microsoft/speecht5_tts';
TtsModelEnglish(targetLang) ==
    IF modelMap(targetLang) # UNDEF THEN modelMap(targetLang) ELSE fallbackModels[3]

\* const model = modelMap[targetLang] || modelMap['es'];
TtsModel(targetLang) ==
    IF modelMap(targetLang) # UNDEF THEN modelMap(targetLang) ELSE modelMap("es")

(* ------------------------------ inputs --------------------------------- *)

\* the audio field of an inbound event: absent, null, a binary payload of
\* len bytes, or a value Buffer.from() rejects (a number, a plain object)
AudioValues ==
    { [kind |-> "undefined", len |-> 0], [kind |-> "null", len |-> 0],
      [kind |-> "object", len |-> 0] }
    \cup { [kind |-> "buffer", len |-> n] : n \in {0, MinAudioBytes - 1, MinAudioBytes} }

SourceLangs == {UNDEF, "auto", "en", "fr", "ja"}
TargetLangs == {UNDEF, "en", "ja", "ko"}

Payloads ==
    [audio : AudioValues, sourceLang : SourceLangs, targetLang : TargetLangs]

\* the payload of the jobs that run side by side: valid audio, one language
BesidePayloads ==
    { [audio |-> [kind |-> "buffer", len |-> MinAudioBytes],
       sourceLang |-> "en", targetLang |-> "en"] }

NoData == [audio |-> [kind |-> "undefined", len |-> 0],
           sourceLang |-> UNDEF, targetLang |-> UNDEF]

(* -------------------------- provider answers --------------------------- *)

\* the transcript a speech-to-text model returns for the audio
SttText == <<"hello">>

\* axios.post to an STT model: a body with a string text, a body without
\* one, a non-2xx answer, or no answer within the timeout
SttResponses ==
    { [st |-> "ok", text |-> SttText], [st |-> "ok", text |-> Undefined],
      [st |-> "error", text |-> Undefined], [st |-> "timeout", text |-> Undefined] }

DetectedLangs == {"en", "ja"}

\* the answer of a detector: a language, a body without a label, a failure
DetectResponses ==
    { [st |-> "ok", label |-> l] : l \in DetectedLangs \cup {""} }
    \cup { [st |-> s, label |-> ""] : s \in {"error", "timeout"} }

\* what a translation model makes of a text
Rendered(text, lang) == text \o <<"@" , lang>>

\* the body shapes doTranslation tells apart
TranslationShapes == {"array", "object", "string", "other"}

TranslationResponses(text, lang) ==
    { [st |-> "ok", shape |-> sh, text |-> t] :
         sh \in TranslationShapes, t \in {Rendered(text, lang), EmptyString} }
    \cup { [st |-> s, shape |-> "other", text |-> EmptyString] : s \in {"error", "timeout"} }

\* the answer of the cloud translation client: a string, or a rejection
GoogleTranslateResponses(text, lang) ==
    { [st |-> "ok", text |-> t] : t \in {Rendered(text, lang), EmptyString} }
    \cup { [st |-> "error", text |-> EmptyString] }

\* the byte length of a synthesis model's answer
TtsResponses ==
    { [st |-> "ok", len |-> n] : n \in {MinTtsBytes - 1, MinTtsBytes, MinTtsBytes + 1} }
    \cup { [st |-> s, len |-> 0] : s \in {"error", "timeout"} }

\* the byte length of the mp3 gtts writes
GttsBytes == 2000

\* const audioBuffer = readFileSync(tmpFile): as many bytes as the download
\* has put into the file, an mp3 or less than one; no length is tested
GttsLengths == {MinPlayableBytes - 1, GttsBytes}

\* the answers of the endpoint that probes the provider: GET /api/models
ProbeResponses == {"ok", "error", "timeout"}

(* ------------------------------- state --------------------------------- *)

VARIABLES
    jobs,                   \* per job: the handler's and the pipeline's locals
    googleTranslateClient,  \* whether the cloud translation client exists
    HUGGING_FACE_TOKEN,     \* whether process.env.HUGGING_FACE_TOKEN is a non-empty string
    tmpdir,                 \* tts-<ms>.mp3 by ms: whether it exists, whose bytes it holds
    serverUp,               \* the process has not died of an uncaught exception
    health,                 \* the GET /api/health request and its response
    client,                 \* per job: what the browser made of its translated-audio
    sockets,                \* the connections, by socket id
    browser,                \* the page: its state, its recorders, what it has emitted
    answered                \* history: the answer the last step of a job has handled

vars == <<jobs, googleTranslateClient, HUGGING_FACE_TOKEN, tmpdir, serverUp, health, client,
          sockets, browser, answered>>

\* a connection not yet established
NoSocket == [connected |-> FALSE, disconnected |-> FALSE, emitted |-> << >>]

\* the browser has not handled a translated-audio event of the job
NotPlayed == [played |-> "none", spoken |-> Undefined]

\* no request to /api/health yet
NoHealth ==
    [ pc |-> "idle", probes |-> 0, probe |-> "none", status |-> UNDEF,
      huggingFace |-> FALSE, apiAccessible |-> FALSE ]

NoAudio == [by |-> UNDEF, len |-> 0, of |-> {}]

\* The milliseconds in which Date.now() is read, each named after the first
\* job that read the clock in it
Stamps == Jobs
NoStamp == 0 - 1
\* seen[k]: the requests job k had made when this job read the clock
NotSeen == [k \in Jobs |-> 0 - 1]
NoFile == [exists |-> FALSE, of |-> {}]

IdleJob ==
    [ data |-> NoData, socket |-> 0, pc |-> "idle", idx |-> 0,
      sourceLang |-> UNDEF, targetLang |-> UNDEF,
      originalText |-> Undefined, detectedSourceLang |-> UNDEF,
      textInEnglish |-> Undefined,
      translatedText |-> Undefined, translatedAudio |-> NoAudio,
      tmpFile |-> NoStamp, stream |-> "none", seen |-> NotSeen, calls |-> << >>, emitted |-> << >> ]

\* no answer handled; on: whether the history is kept in this behaviour
NoAnswer == [on |-> FALSE, job |-> 0, resp |-> [st |-> "none"]]

\* the page after it was loaded: const [isRecording, setIsRecording] =
\* useState(false), isConnected false, sourceLang 'auto', targetLang 'es',
\* no recorder, audioChunks = useRef([]); nothing asked of the microphone and
\* nothing emitted
NoBrowser ==
    [ isConnected |-> FALSE, isRecording |-> FALSE, sourceLang |-> "auto",
      targetLang |-> "es", pending |-> << >>, recorders |-> << >>,
      audioChunks |-> << >>, sent |-> << >> ]

\* the server after it was started
Start ==
    /\ jobs = [j \in Jobs |-> IdleJob]
    /\ googleTranslateClient \in BOOLEAN
    /\ HUGGING_FACE_TOKEN \in BOOLEAN
    /\ tmpdir = [n \in Stamps |-> NoFile]
    /\ serverUp = TRUE
    /\ health = NoHealth
    /\ client = [j \in Jobs |-> NotPlayed]
    /\ browser = NoBrowser
    /\ sockets = [j \in Jobs |-> NoSocket]

Init == Start /\ answered = NoAnswer

\* the same server, observed with the history of the answers
TracedInit == Start /\ answered = [NoAnswer EXCEPT !.on = TRUE]

(* ------------------------- pieces of the code -------------------------- *)

\* socket.emit(ev, ...)
Event(ev, text, audio) == [ev |-> ev, text |-> text, audio |-> audio]
Emit(r, e) == [r EXCEPT !.emitted = Append(@, e)]

\* a faulty variant: the request is made twice
CallTwice(r, api, input) ==
    [r EXCEPT !.calls = Append(Append(@, [api |-> api, input |-> input]),
                               [api |-> api, input |-> input])]

\* one request to a provider, with the text it is given
Call(r, api, input) == [r EXCEPT !.calls = Append(@, [api |-> api, input |-> input])]

OpusMt(sourceLang, targetLang) == <<"Helsinki-NLP/opus-mt-", sourceLang, "-", targetLang>>
GoogleDetect == <<"google.detect">>
GoogleTranslateApi == <<"google.translate">>
HfDetectModel == <<"papluca/xlm-roberta-base-language-detection">>
Gtts == <<"gtts">>
AudioInput == <<"<audio>">>

\* a faulty variant: if (audioData === undefined)
FalsyUndefinedOnly(audio) == audio.kind = "undefined"

\* if (!audioData)
Falsy(audio) == audio.kind \in {"undefined", "null"}

\* Buffer.from(audioData) throws a TypeError for what is no buffer, string or array
BufferFromThrows(audio) == audio.kind \in {"object", "null", "undefined"}
BufferFromMessage == <<"The first argument must be of type string or an instance of Buffer, ArrayBuffer, or Array or an Array-like Object.">>

\* a faulty variant: if (audioBuffer.length <= 1000)
TooSmallInclusive(len) == len <= MinAudioBytes

\* if (audioBuffer.length < 1000)
TooSmall(len) == len < MinAudioBytes

\* a faulty variant: processAudioPipeline(audioData, sourceLang, targetLang, socket)
DefaultToNothing(value, default) == value

\* processAudioPipeline(audioData, sourceLang = 'auto', targetLang = 'es', socket)
DefaultTo(value, default) == IF value = UNDEF THEN default ELSE value

\* a faulty variant: `[Translated from ${sourceLang}] ${text}`
mockTranslationFromSource(text, sourceLang, targetLang) ==
    <<"[Translated from ", sourceLang, "] ">> \o text

\* `[Translated to ${targetLang}] ${text}`
mockTranslation(text, sourceLang, targetLang) ==
    <<"[Translated to ", targetLang, "] ">> \o text

\* Buffer.from('mock-audio-data')
mockTextToSpeech(j) == [by |-> "mock", len |-> MockAudioBytes, of |-> {j}]

\* a faulty variant: if (response.data)
SttValidAnyBody(resp) == resp.st = "ok"

\* if (response.data && typeof response.data.text === 'string')
SttValid(resp) == resp.st = "ok" /\ resp.text # Undefined

\* detectLanguageWithHuggingFace: a top result with a label, else it throws
DetectValid(resp) == resp.st = "ok" /\ resp.label # ""

DetectFailureCause(resp) ==
    CASE resp.st = "ok" -> <<"Invalid response format from language detection model.">>
      [] resp.st = "timeout" -> <<"timeout of 10000ms exceeded">>
      [] OTHER -> <<"Request failed with status code 503">>

\* throw new Error(`Hugging Face language detection failed: ${errorMessage}`)
HfDetectMessage(resp) ==
    <<"Hugging Face language detection failed: ">> \o DetectFailureCause(resp)

\* throw new Error(`Language detection failed: ${detectError.message}. Please ...`)
DetectionFailedMessage(cause) ==
    <<"Language detection failed: ">> \o cause
        \o <<". Please select a source language manually.">>

\* doTranslation: the three body formats it accepts; anything else throws
DoTranslationReturns(resp) ==
    /\ resp.st = "ok"
    /\ \/ resp.shape = "array" /\ resp.text # EmptyString
       \/ resp.shape = "object"
       \/ resp.shape = "string" /\ resp.text # EmptyString

\* a faulty variant: if (translatedText !== undefined) return translatedText;
TruthyDefined(text) == text # Undefined

\* if (translatedText) return translatedText;
Truthy(text) == text # EmptyString

\* a faulty variant: if (targetLang === 'ja')
TouchesJapaneseTarget(sourceLang, targetLang) == targetLang = "ja"

\* if (targetLang === 'ja' || sourceLang === 'ja')
TouchesJapanese(sourceLang, targetLang) == targetLang = "ja" \/ sourceLang = "ja"

\* a faulty variant: if (sourceLang !== 'en' || targetLang !== 'en')
PivotAllowedEither(sourceLang, targetLang) == sourceLang # "en" \/ targetLang # "en"

\* if (sourceLang !== 'en' && targetLang !== 'en')
PivotAllowed(sourceLang, targetLang) == sourceLang # "en" /\ targetLang # "en"

\* if (detectedSourceLang === targetLang)
SameLanguage(detectedSourceLang, targetLang) == detectedSourceLang = targetLang

\* a faulty variant: a timeout is taken for an empty body that is accepted
PrimaryTtsAcceptsTimeout(resp) == resp.st # "error" /\ ~(resp.len < MinTtsBytes /\ resp.st = "ok")

\* if (response.data.byteLength < 100) throw
PrimaryTtsAccepts(resp) == resp.st = "ok" /\ ~(resp.len < MinTtsBytes)

\* if (fallbackResponse.data.byteLength > 100) return
FallbackTtsAccepts(resp) == resp.st = "ok" /\ resp.len > MinTtsBytes

\* 'Authorization': `Bearer ${HUGGING_FACE_TOKEN}`: without a token the header
\* is "Bearer undefined", which the provider answers with 401
Authorized(responses) ==
    IF HUGGING_FACE_TOKEN THEN responses ELSE { resp \in responses : resp.st # "ok" }

(* ----------------- continuations between two awaits -------------------- *)

\* job j goes on as r; the temporary files are not touched
Goto(j, r) ==
    /\ jobs' = [jobs EXCEPT ![j] = r]
    /\ tmpdir' = tmpdir

\* a faulty variant: socket.emit('error', error.message)
HandlerCatchBare(j, r, message) ==
    Goto(j, [Emit(r, Event("error", message, NoAudio)) EXCEPT !.pc = "done"])

\* the handler's catch: socket.emit('error', `Pipeline failed: ${error.message}`)
HandlerCatch(j, r, message) ==
    Goto(j, [Emit(r, Event("error", PipelineFailedPrefix \o message, NoAudio))
                EXCEPT !.pc = "done"])

\* return { audio, text, originalText }, and the handler's
\* socket.emit('translated-audio', { audio: result.audio, text: result.text })
PipelineReturn(j, r, audio) ==
    Goto(j, [Emit([r EXCEPT !.translatedAudio = audio],
                  Event("translated-audio", r.translatedText, audio))
                EXCEPT !.pc = "done"])

\* textToSpeechWithHuggingFace: the request to the model of the target language
textToSpeechWithHuggingFace(j, r) ==
    Goto(j, [Call(r, <<TtsModel(r.targetLang)>>, r.translatedText)
                EXCEPT !.pc = "hftts", !.idx = 0])

\* The jobs whose Date.now() can have returned what job j reads now. A request
\* to a provider and the download of gtts take more than a millisecond, so
\* job k read the clock in this millisecond only if its save is still running
\* and the answer job j handles now was already awaited when k read it.
SameMs(j) ==
    { k \in Jobs \ {j} : /\ jobs[k].pc = "gtts_save"
                         /\ jobs[k].seen[j] = Len(jobs[j].calls) }

\* const tmpFile = join(tmpdir(), `tts-${Date.now()}.mp3`)
DateNow(j) == {j} \cup { jobs[k].tmpFile : k \in SameMs(j) }

\* textToSpeechWithGoogle: the promise is rejected before any file exists
\* (new gtts(text, targetLang) throws, or the file cannot be opened) and the
\* Hugging Face chain starts; or the file is named after Date.now() and
\* speech.save() opens it for writing, which creates or truncates it
textToSpeechWithGoogle(j, r) ==
    LET c == Call(r, Gtts, r.translatedText) IN
    \/ textToSpeechWithHuggingFace(j, c)
    \/ \E now \in DateNow(j) :
          /\ jobs' = [jobs EXCEPT ![j] =
                         [c EXCEPT !.pc = "gtts_save", !.tmpFile = now, !.stream = "open",
                                   !.seen = [k \in Jobs |-> Len(jobs[k].calls)]]]
          /\ tmpdir' = [tmpdir EXCEPT ![now] = [exists |-> TRUE, of |-> {}]]

\* translatedText is known: console.log, then the synthesis stage
Synthesize(j, r, text) == textToSpeechWithGoogle(j, [r EXCEPT !.translatedText = text])

\* catch (transError): translatedText = await mockTranslation(...)
TranslationFailed(j, r) ==
    Synthesize(j, r, mockTranslation(r.originalText, r.detectedSourceLang, r.targetLang))

\* a faulty variant: the second leg translates the text the first leg was given
PivotSecondLegOnInput(j, r, textInEnglish) ==
    Goto(j, [Call([r EXCEPT !.textInEnglish = textInEnglish],
                  OpusMt("en", r.targetLang), r.originalText)
                EXCEPT !.pc = "tr_pivot2"])

\* doTranslation(textInEnglish, `Helsinki-NLP/opus-mt-en-${targetLang}`)
PivotSecondLeg(j, r, textInEnglish) ==
    Goto(j, [Call([r EXCEPT !.textInEnglish = textInEnglish],
                  OpusMt("en", r.targetLang), textInEnglish)
                EXCEPT !.pc = "tr_pivot2"])

\* Strategy 2 of translateWithHuggingFace
PivotThroughEnglish(j, r) ==
    IF PivotAllowed(r.detectedSourceLang, r.targetLang)
    THEN Goto(j, [Call(r, OpusMt(r.detectedSourceLang, "en"), r.originalText)
                     EXCEPT !.pc = "tr_pivot1"])
    ELSE TranslationFailed(j, r)

\* Strategy 1 of translateWithHuggingFace
DirectTranslation(j, r) ==
    Goto(j, [Call(r, OpusMt(r.detectedSourceLang, r.targetLang), r.originalText)
                EXCEPT !.pc = "tr_direct"])

\* translateWithHuggingFace(originalText, detectedSourceLang, targetLang)
translateWithHuggingFace(j, r) ==
    IF TouchesJapanese(r.detectedSourceLang, r.targetLang) /\ googleTranslateClient
    THEN Goto(j, [Call(r, GoogleTranslateApi, r.originalText) EXCEPT !.pc = "tr_google"])
    ELSE DirectTranslation(j, r)

\* a faulty variant: the translating stage without the same-language check
AfterDetectionAlways(j, r) == translateWithHuggingFace(j, r)

\* the same-language check and the translating stage
AfterDetection(j, r) ==
    IF SameLanguage(r.detectedSourceLang, r.targetLang)
    THEN Synthesize(j, r, r.originalText)
    ELSE translateWithHuggingFace(j, r)

\* a faulty variant: catch (detectError) { console.warn(...) }, and go on
DetectionFailedSwallowed(j, r, cause) == AfterDetection(j, r)

\* a faulty variant: after the cloud detector the model is asked
DetectionFailedOver(j, r, cause) ==
    IF r.calls[Len(r.calls)].api = GoogleDetect
    THEN Goto(j, Call(r, HfDetectModel, r.originalText))
    ELSE HandlerCatch(j, r, DetectionFailedMessage(cause))

\* catch (detectError) { throw new Error(`Language detection failed: ...`) },
\* which no catch of the pipeline handles: the handler's catch emits the error
DetectionFailed(j, r, cause) == HandlerCatch(j, r, DetectionFailedMessage(cause))

\* a faulty variant: the language is detected whatever sourceLang is
AfterSttAlwaysDetects(j, r) ==
    Goto(j, [Call(r, IF googleTranslateClient THEN GoogleDetect ELSE HfDetectModel,
                  r.originalText)
                EXCEPT !.pc = "detect"])

\* if (sourceLang === 'auto'): the cloud detector when it exists, else the model
AfterStt(j, r) ==
    IF r.sourceLang = "auto"
    THEN Goto(j, [Call(r, IF googleTranslateClient THEN GoogleDetect ELSE HfDetectModel,
                       r.originalText)
                     EXCEPT !.pc = "detect"])
    ELSE AfterDetection(j, r)

\* a faulty variant: the event is emitted before originalText is assigned
SttSucceededStale(j, r, text) ==
    AfterStt(j, [Emit(r, Event("transcription-update", r.originalText, NoAudio))
                    EXCEPT !.originalText = text])

\* a faulty variant: the transcript is kept and no event is emitted
SttSucceededSilent(j, r, text) == AfterStt(j, [r EXCEPT !.originalText = text])

\* originalText = await speechToTextWithHuggingFace(audioBuffer);
\* socket.emit('transcription-update', { originalText })
SttSucceeded(j, r, text) ==
    AfterStt(j, Emit([r EXCEPT !.originalText = text],
                     Event("transcription-update", text, NoAudio)))

\* a faulty variant: the exception of the STT chain is not caught
SttFailedThrows(j, r) == HandlerCatch(j, r, AllSttFailedMessage)

\* catch (sttError): originalText = await mockSpeechToText(audioBuffer)
SttFailed(j, r) == AfterStt(j, [r EXCEPT !.originalText = MockSttText])

\* processAudioPipeline up to its first await
processAudioPipeline(j, r0) ==
    LET r == [r0 EXCEPT !.sourceLang = DefaultTo(r0.data.sourceLang, "auto"),
                        !.targetLang = DefaultTo(r0.data.targetLang, "es")] IN
    IF BufferFromThrows(r.data.audio) THEN HandlerCatch(j, r, BufferFromMessage)
    ELSE IF TooSmall(r.data.audio.len) THEN HandlerCatch(j, r, TooSmallMessage)
    ELSE Goto(j, [Call([r EXCEPT !.detectedSourceLang = r.sourceLang],
                       <<sttModels[1]>>, AudioInput)
                     EXCEPT !.pc = "stt", !.idx = 1])

(* ------------------------------ actions -------------------------------- *)

\* the constants of the module, assigned once when it is loaded
Config == <<googleTranslateClient, HUGGING_FACE_TOKEN>>

\* the history after job j has handled resp
Heard(j, resp) ==
    answered' = IF answered.on THEN [on |-> TRUE, job |-> j, resp |-> resp] ELSE answered

\* what a step of a job leaves alone
Frame == UNCHANGED <<Config, serverUp, health, client, sockets, browser>>

\* socket.emit('connected', { message: ..., socketId: socket.id })
Connected(id) ==
    [ev |-> "connected", message |-> "Connected to translation server", socketId |-> id]

\* a faulty variant: the acknowledgement is sent twice
GreetingTwice(id) == <<Connected(id), Connected(id)>>

\* what the connection handler emits on the new socket
Greeting(id) == <<Connected(id)>>

\* the server runs without token and without cloud client: the configuration
\* in which jobs that share a connection and disconnections are explored
Bare == ~HUGGING_FACE_TOKEN /\ ~googleTranslateClient

\* io.on('connection', (socket) => ...): the handlers of audio-stream and
\* disconnect are registered and the acknowledgement is emitted. The socket
\* is named after the job of its first event.
Connection(j) ==
    /\ serverUp
    /\ jobs[j].pc = "idle"
    /\ sockets[j] = NoSocket
    /\ sockets' = [sockets EXCEPT ![j] = [NoSocket EXCEPT !.connected = TRUE,
                                                          !.emitted = Greeting(j)]]
    /\ UNCHANGED <<jobs, Config, tmpdir, serverUp, health, client, browser, answered>>

\* The events explored: a job of any payload that runs alone, or up to NJobs
\* jobs of a payload of BesidePayloads that run side by side; the health
\* endpoint, which shares nothing with the jobs, is explored apart from them.
\* With the history of the answers, one job is observed.
Admitted(j, d) ==
    /\ health.pc = "idle"
    /\ \/ \A k \in Jobs \ {j} : jobs[k].pc = "idle"
       \/ /\ ~answered.on
          /\ d \in BesidePayloads
          /\ \A k \in Jobs \ {j} : jobs[k].pc # "idle" => jobs[k].data \in BesidePayloads

\* the audio-stream handler of socket s, called for job j with data d, up to
\* its first await
OnAudioStream(j, s, d) ==
    LET r == [jobs[j] EXCEPT !.data = d, !.socket = s] IN
    IF Falsy(d.audio)
    THEN Goto(j, [Emit(r, Event("error", NoAudioMessage, NoAudio)) EXCEPT !.pc = "done"])
    ELSE processAudioPipeline(j, r)

\* socket.on('audio-stream', async (data) => ...), for an event of any sender
AudioStream(j) ==
    /\ serverUp
    /\ jobs[j].pc = "idle"
    /\ \E s \in Jobs :
          /\ sockets[s].connected
          /\ s = j \/ (Bare /\ \E k \in Jobs : jobs[k].socket = s)
          /\ \E d \in Payloads : Admitted(j, d) /\ OnAudioStream(j, s, d)
    /\ Heard(0, NoAnswer.resp)
    /\ Frame

\* speechToTextWithHuggingFace: what the loop does with the answer resp of
\* model idx
SttAnswer(j, resp) ==
    /\ jobs[j].pc = "stt"
    /\ LET r == jobs[j] IN
       IF SttValid(resp)
       THEN SttSucceeded(j, r, resp.text)
       ELSE IF r.idx < Len(sttModels)
       THEN Goto(j, Call([r EXCEPT !.idx = r.idx + 1],
                         <<sttModels[r.idx + 1]>>, AudioInput))
       ELSE SttFailed(j, r)

\* speechToTextWithHuggingFace: the answer of model idx
SttResponse(j) ==
    /\ serverUp
    /\ jobs[j].pc = "stt"
    /\ \E resp \in Authorized(SttResponses) : SttAnswer(j, resp) /\ Heard(j, resp)
    /\ Frame

\* what the detection stage does with the answer resp of its detector
DetectAnswer(j, resp) ==
    /\ jobs[j].pc = "detect"
    /\ LET r == jobs[j] IN
       IF googleTranslateClient
       THEN IF resp.st = "ok"
            THEN AfterDetection(j, [r EXCEPT !.detectedSourceLang = resp.label])
            ELSE DetectionFailed(j, r, DetectFailureCause(resp))
       ELSE IF DetectValid(resp)
            THEN AfterDetection(j, [r EXCEPT !.detectedSourceLang = resp.label])
            ELSE DetectionFailed(j, r, HfDetectMessage(resp))

\* the answer of googleTranslateClient.detect (a detection with its language,
\* or a rejection) or of detectLanguageWithHuggingFace
DetectResponse(j) ==
    /\ serverUp
    /\ jobs[j].pc = "detect"
    /\ IF googleTranslateClient
       THEN \E resp \in DetectResponses :
               /\ resp.st = "ok" => resp.label # ""
               /\ DetectAnswer(j, resp)
               /\ Heard(j, resp)
       ELSE \E resp \in Authorized(DetectResponses) : DetectAnswer(j, resp) /\ Heard(j, resp)
    /\ Frame

\* Strategy 0: the answer of googleTranslateClient.translate
GoogleTranslateResponse(j) ==
    /\ serverUp
    /\ jobs[j].pc = "tr_google"
    /\ \E resp \in GoogleTranslateResponses(jobs[j].originalText, jobs[j].targetLang) :
          /\ IF resp.st = "ok"
             THEN Synthesize(j, jobs[j], resp.text)
             ELSE DirectTranslation(j, jobs[j])
          /\ Heard(j, resp)
    /\ Frame

\* Strategy 1: what the router does with the answer resp of the direct model
DirectAnswer(j, resp) ==
    /\ jobs[j].pc = "tr_direct"
    /\ IF DoTranslationReturns(resp) /\ Truthy(resp.text)
       THEN Synthesize(j, jobs[j], resp.text)
       ELSE PivotThroughEnglish(j, jobs[j])

\* Strategy 1: the answer of the direct model
DirectResponse(j) ==
    /\ serverUp
    /\ jobs[j].pc = "tr_direct"
    /\ \E resp \in Authorized(TranslationResponses(jobs[j].originalText, jobs[j].targetLang)) :
          DirectAnswer(j, resp) /\ Heard(j, resp)
    /\ Frame

\* Strategy 2: what the router does with the answer resp of the
\* source-to-English model
PivotFirstAnswer(j, resp) ==
    /\ jobs[j].pc = "tr_pivot1"
    /\ IF DoTranslationReturns(resp) /\ Truthy(resp.text)
       THEN PivotSecondLeg(j, jobs[j], resp.text)
       ELSE TranslationFailed(j, jobs[j])

\* Strategy 2: the answer of the source-to-English model
PivotFirstResponse(j) ==
    /\ serverUp
    /\ jobs[j].pc = "tr_pivot1"
    /\ \E resp \in Authorized(TranslationResponses(jobs[j].originalText, "en")) :
          PivotFirstAnswer(j, resp) /\ Heard(j, resp)
    /\ Frame

\* Strategy 2: what the router does with the answer resp of the
\* English-to-target model
PivotSecondAnswer(j, resp) ==
    /\ jobs[j].pc = "tr_pivot2"
    /\ IF DoTranslationReturns(resp) /\ Truthy(resp.text)
       THEN Synthesize(j, jobs[j], resp.text)
       ELSE TranslationFailed(j, jobs[j])

\* Strategy 2: the answer of the English-to-target model
PivotSecondResponse(j) ==
    /\ serverUp
    /\ jobs[j].pc = "tr_pivot2"
    /\ \E resp \in Authorized(TranslationResponses(jobs[j].textInEnglish, jobs[j].targetLang)) :
          PivotSecondAnswer(j, resp) /\ Heard(j, resp)
    /\ Frame

\* the file after job j's stream put its bytes into it; the bytes of a
\* stream whose file was unlinked meanwhile reach no path
Written(j) ==
    IF jobs[j].stream = "open"
    THEN [tmpdir EXCEPT ![jobs[j].tmpFile].of = @ \cup {j}]
    ELSE tmpdir

\* speech.save(tmpFile, ...): gtts has written the whole mp3
GttsSave(j) ==
    /\ serverUp
    /\ jobs[j].pc = "gtts_save"
    /\ tmpdir' = Written(j)
    /\ jobs' = [jobs EXCEPT ![j] = [@ EXCEPT !.pc = "gtts_saved", !.stream = "none",
                                            !.seen = NotSeen]]
    /\ Heard(0, NoAnswer.resp)
    /\ Frame

\* speech.save(tmpFile, (err) => { if (err) { reject(err); return; } ...:
\* the stream failed, with or without bytes of it in the file, which stays
GttsSaveError(j) ==
    /\ serverUp
    /\ jobs[j].pc = "gtts_save"
    /\ \E partial \in BOOLEAN :
          tmpdir' = IF partial THEN Written(j) ELSE tmpdir
    /\ LET r == [jobs[j] EXCEPT !.stream = "none", !.seen = NotSeen] IN
       jobs' = [jobs EXCEPT ![j] =
                   [Call(r, <<TtsModel(r.targetLang)>>, r.translatedText)
                       EXCEPT !.pc = "hftts", !.idx = 0]]
    /\ Heard(0, NoAnswer.resp)
    /\ Frame

\* the jobs other than j whose stream into file is open
Streaming(j, file) ==
    { k \in Jobs \ {j} : jobs[k].stream = "open" /\ jobs[k].tmpFile = file }

\* the callback of speech.save without err: readFileSync, unlinkSync, resolve,
\* then the pipeline returns and the handler emits translated-audio.
\* readFileSync of a missing file throws inside the callback, where neither
\* the promise's try nor the pipeline's catches reach: the promise is never
\* settled, and the process may end on the uncaught exception
GttsCallback(j) ==
    /\ serverUp
    /\ jobs[j].pc = "gtts_saved"
    /\ LET file == jobs[j].tmpFile IN
       IF tmpdir[file].exists
       THEN \E early \in SUBSET Streaming(j, file), len \in GttsLengths :
               LET audio == [by |-> "gtts", len |-> len,
                             of |-> tmpdir[file].of \cup early]
                   r == jobs[j]
               IN  /\ jobs' = [k \in Jobs |->
                          IF k = j
                          THEN [Emit([r EXCEPT !.translatedAudio = audio],
                                     Event("translated-audio", r.translatedText, audio))
                                   EXCEPT !.pc = "done"]
                          ELSE IF k \in Streaming(j, file)
                          THEN [jobs[k] EXCEPT !.stream = "orphan"]
                          ELSE jobs[k]]
                   /\ tmpdir' = [tmpdir EXCEPT ![file] = NoFile]
                   /\ serverUp' = serverUp
       ELSE /\ jobs' = [jobs EXCEPT ![j].pc = "hung"]
            /\ serverUp' \in BOOLEAN
            /\ tmpdir' = tmpdir
    /\ Heard(0, NoAnswer.resp)
    /\ UNCHANGED <<Config, health, client, sockets, browser>>

\* textToSpeechWithHuggingFace: what is done with the answer resp of the
\* model of the target language
HfTtsAnswer(j, resp) ==
    /\ jobs[j].pc = "hftts"
    /\ jobs[j].idx = 0
    /\ LET r == jobs[j] IN
       IF PrimaryTtsAccepts(resp)
       THEN PipelineReturn(j, r, [by |-> TtsModel(r.targetLang), len |-> resp.len, of |-> {j}])
       ELSE Goto(j, Call([r EXCEPT !.idx = 1], <<fallbackModels[1]>>, r.translatedText))

\* textToSpeechWithHuggingFace: the answer of the model of the target language
HfTtsResponse(j) ==
    /\ serverUp
    /\ jobs[j].pc = "hftts"
    /\ \E resp \in Authorized(TtsResponses) : HfTtsAnswer(j, resp) /\ Heard(j, resp)
    /\ Frame

\* textToSpeechWithHuggingFace: what the loop does with the answer resp of
\* fallback model idx
HfFallbackAnswer(j, resp) ==
    /\ jobs[j].pc = "hftts"
    /\ jobs[j].idx >= 1
    /\ LET r == jobs[j] IN
       IF FallbackTtsAccepts(resp)
       THEN PipelineReturn(j, r, [by |-> fallbackModels[r.idx], len |-> resp.len, of |-> {j}])
       ELSE IF r.idx < Len(fallbackModels)
       THEN Goto(j, Call([r EXCEPT !.idx = r.idx + 1],
                         <<fallbackModels[r.idx + 1]>>, r.translatedText))
       ELSE PipelineReturn(j, r, mockTextToSpeech(j))

\* textToSpeechWithHuggingFace: the answer of fallback model idx
HfFallbackResponse(j) ==
    /\ serverUp
    /\ jobs[j].pc = "hftts"
    /\ \E resp \in Authorized(TtsResponses) : HfFallbackAnswer(j, resp) /\ Heard(j, resp)
    /\ Frame

\* the steps of job j
JobNext(j) ==
    \/ AudioStream(j)
    \/ SttResponse(j)
    \/ DetectResponse(j)
    \/ GoogleTranslateResponse(j)
    \/ DirectResponse(j)
    \/ PivotFirstResponse(j)
    \/ PivotSecondResponse(j)
    \/ GttsSave(j)
    \/ GttsSaveError(j)
    \/ GttsCallback(j)
    \/ HfTtsResponse(j)
    \/ HfFallbackResponse(j)

\* job j has been received and its handler has not emitted its last event
InProgress(j) == jobs[j].pc \notin {"idle", "done"}

\* socket.on('disconnect', (reason) => { console.log(...) }): the connection
\* is gone, and nothing else is done. The disconnections explored are those
\* of a connection with a job in progress.
Disconnect(s) ==
    /\ Bare
    /\ sockets[s].connected
    /\ \E j \in Jobs : jobs[j].socket = s /\ InProgress(j)
    /\ sockets' = [sockets EXCEPT ![s].connected = FALSE, ![s].disconnected = TRUE]
    /\ UNCHANGED <<jobs, Config, tmpdir, serverUp, health, client, browser, answered>>

\* a faulty variant: status: HUGGING_FACE_TOKEN ? 'healthy' : 'degraded'
HealthStatusByToken(servicesWorking) ==
    IF HUGGING_FACE_TOKEN THEN "healthy" ELSE "degraded"

\* status: servicesWorking ? 'healthy' : 'degraded'
HealthStatus(servicesWorking) ==
    IF servicesWorking THEN "healthy" ELSE "degraded"

\* res.json({ status, timestamp, services: { huggingFace, apiAccessible } })
ResJson(h, servicesWorking) ==
    [h EXCEPT !.pc = "done",
              !.status = HealthStatus(servicesWorking),
              !.huggingFace = HUGGING_FACE_TOKEN,
              !.apiAccessible = servicesWorking]

\* app.get('/api/health', ...) up to the await in testServices():
\* if (!HUGGING_FACE_TOKEN) return false, else the probe is sent
ApiHealth ==
    /\ serverUp
    /\ health.pc \in {"idle", "done"}
    /\ \A j \in Jobs : jobs[j].pc = "idle"
    /\ health' = IF ~HUGGING_FACE_TOKEN
                 THEN ResJson(NoHealth, FALSE)
                 ELSE [NoHealth EXCEPT !.pc = "probe", !.probes = 1]
    /\ UNCHANGED <<jobs, Config, tmpdir, serverUp, client, sockets, browser, answered>>

\* testServices(): axios.get answered (return true) or failed (return false),
\* then the handler's res.json
ProbeResponse ==
    /\ serverUp
    /\ health.pc = "probe"
    /\ \E resp \in ProbeResponses :
          health' = ResJson([health EXCEPT !.probe = resp], resp = "ok")
    /\ UNCHANGED <<jobs, Config, tmpdir, serverUp, client, sockets, browser, answered>>

\* a faulty variant: if (!audioData)
UnplayableMissingOnly(audio) == audio.by = UNDEF

\* if (!audioData || (audioData.byteLength !== undefined && audioData.byteLength < 50))
Unplayable(audio) == audio.by = UNDEF \/ audio.len < MinPlayableBytes

\* if (textFallback) browserTextToSpeech(textFallback, targetLang)
SpeakOr(text, otherwise) ==
    IF Truthy(text) THEN [played |-> "speech", spoken |-> text]
    ELSE [played |-> otherwise, spoken |-> Undefined]

\* playTranslatedAudio(audioData, textFallback): invalid audio is spoken by
\* the browser, or reported when there is no text; other audio is played, and
\* spoken by the browser when the playback fails
playTranslatedAudio(audio, text) ==
    IF Unplayable(audio)
    THEN {SpeakOr(text, "error")}
    ELSE {[played |-> "audio", spoken |-> Undefined], SpeakOr(text, "failed")}

\* the browser's socket.on('translated-audio', ({ audio, text }) => ...):
\* playTranslatedAudio(audio, text), then setIsRecording(false)
TranslatedAudio(j) ==
    /\ client[j] = NotPlayed
    /\ jobs[j].pc = "done"
    /\ sockets[jobs[j].socket].connected
    /\ LET e == jobs[j].emitted[Len(jobs[j].emitted)] IN
       /\ e.ev = "translated-audio"
       /\ \E outcome \in playTranslatedAudio(e.audio, e.text) :
             client' = [client EXCEPT ![j] = outcome]
    /\ browser' = [browser EXCEPT !.isRecording = FALSE]
    /\ UNCHANGED <<jobs, Config, tmpdir, serverUp, health, sockets, answered>>

Next ==
    \/ \E j \in Jobs : Connection(j)
    \/ \E s \in Jobs : Disconnect(s)
    \/ \E j \in Jobs : JobNext(j)
    \/ \E j \in Jobs : TranslatedAudio(j)
    \/ ApiHealth
    \/ ProbeResponse

Spec == Init /\ [][Next]_vars

\* the behaviours of one job with the history of the answers it handled
Traced == TracedInit /\ [][Next]_vars

(* ------------------------------ the page ------------------------------ *)

\* socket.current = io(...): the connection of the page
PageSocket == 1

\* the size of the Blob a recorder delivers: nothing was captured, or audio
ChunkSizes == {0, MinAudioBytes}

\* the languages chosen on the page in the behaviours explored
PageSourceLangs == {"auto", "en"}

RECURSIVE BlobSize(_)
\* new Blob(audioChunks.current, ...).size
BlobSize(chunks) ==
    IF chunks = << >> THEN 0 ELSE Head(chunks).size + BlobSize(Tail(chunks))

\* what the steps of the page leave alone
PageFrame == UNCHANGED <<jobs, Config, tmpdir, serverUp, health, client, sockets, answered>>

\* socket.current.on('connect', ...): setIsConnected(true)
Connect ==
    /\ sockets[PageSocket].connected
    /\ ~browser.isConnected
    /\ browser' = [browser EXCEPT !.isConnected = TRUE]
    /\ PageFrame

\* <select value={sourceLang} onChange={(e) => setSourceLang(e.target.value)}
\* disabled={isRecording}>
SetSourceLang ==
    /\ ~browser.isRecording
    /\ \E lang \in PageSourceLangs \ {browser.sourceLang} :
          browser' = [browser EXCEPT !.sourceLang = lang]
    /\ PageFrame

\* <button onClick={startRecording} disabled={isRecording || !isConnected}>:
\* startRecording up to await navigator.mediaDevices.getUserMedia(...); the
\* call keeps the languages of the render it was made in. The recordings
\* explored are as many as the jobs.
startRecording ==
    /\ ~browser.isRecording
    /\ browser.isConnected
    /\ Len(browser.pending) + Len(browser.recorders) < NJobs
    /\ browser' = [browser EXCEPT !.pending =
                      Append(@, [sourceLang |-> browser.sourceLang,
                                 targetLang |-> browser.targetLang])]
    /\ PageFrame

\* startRecording after getUserMedia has resolved: audioChunks.current = [],
\* mediaRecorder.current = new MediaRecorder(...), the callbacks are set,
\* start(), setIsRecording(true)
MicrophoneGranted ==
    /\ browser.pending # << >>
    /\ browser' = [browser EXCEPT
                      !.pending = Tail(@),
                      !.audioChunks = << >>,
                      !.recorders = Append(@, [state |-> "recording",
                                               delivered |-> << >>,
                                               sourceLang |-> Head(browser.pending).sourceLang,
                                               targetLang |-> Head(browser.pending).targetLang]),
                      !.isRecording = TRUE]
    /\ PageFrame

\* startRecording's catch: getUserMedia has rejected, or new MediaRecorder
\* has thrown after audioChunks.current = []; setError, and no recorder
StartFailed ==
    /\ browser.pending # << >>
    /\ \E constructed \in BOOLEAN :
          browser' = [browser EXCEPT
                         !.pending = Tail(@),
                         !.audioChunks = IF constructed THEN << >> ELSE @]
    /\ PageFrame

\* <button onClick={stopRecording} disabled={!isRecording}>, and
\* if (mediaRecorder.current && isRecording): stop(), by which a recorder
\* that records becomes inactive and queues the task of its last events;
\* setIsRecording(false); audioChunks.current = []. stop() on a recorder that
\* has stopped by itself returns, or throws InvalidStateError in the browsers
\* that follow the earlier standard, and the handler ends there.
stopRecording ==
    /\ browser.isRecording
    /\ browser.recorders # << >>
    /\ LET k == Len(browser.recorders) IN
       IF browser.recorders[k].state = "recording"
       THEN browser' = [browser EXCEPT !.recorders[k].state = "stopping",
                                       !.isRecording = FALSE,
                                       !.audioChunks = << >>]
       ELSE \E throws \in BOOLEAN :
               browser' = IF throws THEN browser
                          ELSE [browser EXCEPT !.isRecording = FALSE,
                                               !.audioChunks = << >>]
    /\ PageFrame

\* mediaRecorder.current.ondataavailable = (event) =>
\* audioChunks.current.push(event.data)
ondataavailable(b, chunk) == [b EXCEPT !.audioChunks = Append(@, chunk)]

\* a faulty variant: the Blob is sent whatever its size
onstopUnchecked(b, k) ==
    [b EXCEPT !.sent = Append(@, [by |-> k, chunks |-> b.audioChunks,
                                  sourceLang |-> b.recorders[k].sourceLang,
                                  targetLang |-> b.recorders[k].targetLang])]

\* mediaRecorder.current.onstop: the Blob of audioChunks.current is emitted
\* as audio-stream with the languages of the call, unless its size is 0
onstop(b, k) ==
    IF BlobSize(b.audioChunks) = 0 THEN b
    ELSE [b EXCEPT !.sent = Append(@, [by |-> k, chunks |-> b.audioChunks,
                                       sourceLang |-> b.recorders[k].sourceLang,
                                       targetLang |-> b.recorders[k].targetLang])]

\* The last events of recorder k, after stop() or after the tracks of its
\* stream have ended: one task of the browser fires dataavailable with the
\* Blob of all that was recorded (start() was called without timeslice and
\* requestData() is called nowhere) and then stop.
RecorderStopped(k) ==
    /\ k \in DOMAIN browser.recorders
    /\ browser.recorders[k].state \in {"recording", "stopping"}
    /\ \E size \in ChunkSizes :
          LET chunk == [of |-> k, size |-> size]
              b == [browser EXCEPT !.recorders[k].state = "inactive",
                                   !.recorders[k].delivered = <<chunk>>]
          IN  browser' = onstop(ondataavailable(b, chunk), k)
    /\ PageFrame

\* the audio-stream event number j of the page reaches the server, a Blob
\* being sent as binary: the handler of the page's socket runs for job j
PageAudioStream(j) ==
    /\ serverUp
    /\ jobs[j].pc = "idle"
    /\ sockets[PageSocket].connected
    /\ j <= Len(browser.sent)
    /\ \A k \in 1..(j - 1) : jobs[k].pc # "idle"
    /\ OnAudioStream(j, PageSocket,
                     [audio |-> [kind |-> "buffer", len |-> BlobSize(browser.sent[j].chunks)],
                      sourceLang |-> browser.sent[j].sourceLang,
                      targetLang |-> browser.sent[j].targetLang])
    /\ Heard(0, NoAnswer.resp)
    /\ Frame

\* the browser's socket.current.on('error', (errorMsg) => ...): setError,
\* setStatus, setIsRecording(false)
ErrorEvent(j) ==
    /\ client[j] = NotPlayed
    /\ jobs[j].pc = "done"
    /\ sockets[jobs[j].socket].connected
    /\ jobs[j].emitted[Len(jobs[j].emitted)].ev = "error"
    /\ client' = [client EXCEPT ![j] = [played |-> "error event", spoken |-> Undefined]]
    /\ browser' = [browser EXCEPT !.isRecording = FALSE]
    /\ UNCHANGED <<jobs, Config, tmpdir, serverUp, health, sockets, answered>>

\* the steps a job of the page takes on a server without token and without
\* cloud client, where no other step of a job is ever enabled
PageJobNext(j) ==
    \/ PageAudioStream(j)
    \/ SttResponse(j)
    \/ DetectResponse(j)
    \/ DirectResponse(j)
    \/ GttsSave(j)
    \/ GttsSaveError(j)
    \/ GttsCallback(j)
    \/ HfTtsResponse(j)
    \/ HfFallbackResponse(j)

PageInit == Init /\ Bare

PageNext ==
    \/ Connection(PageSocket)
    \/ Connect
    \/ SetSourceLang
    \/ startRecording
    \/ MicrophoneGranted
    \/ StartFailed
    \/ stopRecording
    \/ \E k \in Jobs : RecorderStopped(k)
    \/ \E j \in Jobs : PageJobNext(j)
    \/ \E j \in Jobs : TranslatedAudio(j)
    \/ \E j \in Jobs : ErrorEvent(j)

\* the page and the server it talks to
Page == PageInit /\ [][PageNext]_vars

(* ------------------------- reading the state --------------------------- *)

Received(j) == jobs[j].pc # "idle"
AudioAbsent(j) == jobs[j].data.audio.kind \in {"undefined", "null"}
AudioBytes(j) == jobs[j].data.audio.len
IsBuffer(j) == jobs[j].data.audio.kind = "buffer"
DeclaredSource(j) == jobs[j].data.sourceLang \notin {UNDEF, "auto"}

EventsOf(j, ev) == { i \in DOMAIN jobs[j].emitted : jobs[j].emitted[i].ev = ev }
TerminalEvents(j) == EventsOf(j, "translated-audio") \cup EventsOf(j, "error")

TtsModels ==
    { modelMap(l) : l \in {"es", "fr", "de", "ja", "hi", "it", "ru", "zh", "ur"} }
    \cup { fallbackModels[i] : i \in DOMAIN fallbackModels }

IsSttCall(c) == c.api \in { <<sttModels[i]>> : i \in DOMAIN sttModels }
IsDetectCall(c) == c.api \in {GoogleDetect, HfDetectModel}
IsTranslationCall(c) == c.api = GoogleTranslateApi \/ Head(c.api) = "Helsinki-NLP/opus-mt-"
IsSynthesisCall(c) == c.api = Gtts \/ c.api \in { <<m>> : m \in TtsModels }

\* a request to router.huggingface.co with the Authorization header
IsHuggingFaceCall(c) ==
    \/ IsSttCall(c)
    \/ c.api = HfDetectModel
    \/ Head(c.api) = "Helsinki-NLP/opus-mt-"
    \/ c.api \in { <<m>> : m \in TtsModels }

CallsOf(j) == { jobs[j].calls[i] : i \in DOMAIN jobs[j].calls }

\* s is the beginning of t
Prefix(s, t) == Len(s) <= Len(t) /\ s = SubSeq(t, 1, Len(s))

\* the requests of job j to STT models, to synthesis providers, in order
SttCalls(j) == SelectSeq(jobs[j].calls, IsSttCall)
SynthesisCalls(j) == SelectSeq(jobs[j].calls, IsSynthesisCall)

\* the requests of job j to translation providers, and to translation models
TranslationCalls(j) == SelectSeq(jobs[j].calls, IsTranslationCall)
IsModelTranslationCall(c) == Head(c.api) = "Helsinki-NLP/opus-mt-"
ModelTranslationCalls(j) == SelectSeq(jobs[j].calls, IsModelTranslationCall)

\* the requests of job j to detectors
DetectCalls(j) == SelectSeq(jobs[j].calls, IsDetectCall)

\* the job is past the translating stage
Synthesizing(j) == jobs[j].translatedText # Undefined

\* the job waits for something that will never come: its promise is never
\* settled, or the process is gone
Abandoned(j) ==
    /\ jobs[j].pc \notin {"idle", "done"}
    /\ jobs[j].pc = "hung" \/ ~serverUp

(* ------------------------------ claims --------------------------------- *)

\* C1: a job with at least 1000 bytes of audio and a declared source language
\* always gets its result, whatever the providers do: it is never left
\* without an answer, no error event is emitted for it, and when it is over
\* its last event is translated-audio with originalText, text and audio set.
C1_TotalFallbackCoverage ==
    \A j \in Jobs :
        (Received(j) /\ IsBuffer(j) /\ AudioBytes(j) >= MinAudioBytes /\ DeclaredSource(j))
        => /\ EventsOf(j, "error") = {}
           /\ ~Abandoned(j)
           /\ jobs[j].pc = "done"
                => LET e == jobs[j].emitted[Len(jobs[j].emitted)] IN
                   /\ e.ev = "translated-audio"
                   /\ e.text # Undefined
                   /\ e.audio.by # UNDEF
                   /\ jobs[j].originalText # Undefined

\* the answer of the detector has arrived and gave no language
DetectionHasFailed(j) ==
    /\ \E c \in CallsOf(j) : IsDetectCall(c)
    /\ jobs[j].pc # "detect"
    /\ jobs[j].detectedSourceLang = "auto"

\* C2: with sourceLang 'auto' and a failed detection the job ends with one
\* error event and no translated-audio, and the detector is the last provider
\* it called: no translation and no synthesis provider is invoked.
C2_DetectionFailureIsFatal ==
    \A j \in Jobs :
        DetectionHasFailed(j)
        => /\ jobs[j].pc = "done"
           /\ Cardinality(EventsOf(j, "error")) = 1
           /\ EventsOf(j, "translated-audio") = {}
           /\ \A c \in CallsOf(j) : ~IsTranslationCall(c) /\ ~IsSynthesisCall(c)
           /\ IsDetectCall(jobs[j].calls[Len(jobs[j].calls)])
           /\ jobs[j].translatedText = Undefined

C2_Witness ==
    \E j \in Jobs : DetectionHasFailed(j) /\ jobs[j].data.sourceLang = "auto"

\* C3: audio of 0 to 999 bytes is rejected before any provider is called: the
\* job is over with one error event and nothing else; 1000 bytes are accepted
\* and the first STT model is called.
C3_MinimumSizeRejection ==
    \A j \in Jobs :
        (Received(j) /\ IsBuffer(j))
        => IF AudioBytes(j) < 1000
           THEN /\ jobs[j].calls = << >>
                /\ jobs[j].pc = "done"
                /\ Len(jobs[j].emitted) = 1
                /\ jobs[j].emitted[1].ev = "error"
           ELSE /\ jobs[j].calls # << >>
                /\ jobs[j].calls[1].api = <<"openai/whisper-base">>
                /\ \A i \in EventsOf(j, "error") :
                      jobs[j].emitted[i].text # PipelineFailedPrefix \o TooSmallMessage

C3_Witness ==
    \E j \in Jobs : Received(j) /\ IsBuffer(j) /\ AudioBytes(j) = 999

\* C4: an event without audio gets exactly one error event, "No audio data
\* received.", and nothing else happens: no provider call, no other event.
C4_MissingAudio ==
    \A j \in Jobs :
        (Received(j) /\ AudioAbsent(j))
        => /\ jobs[j].emitted = <<Event("error", <<"No audio data received.">>, NoAudio)>>
           /\ jobs[j].calls = << >>
           /\ jobs[j].pc = "done"
           /\ jobs[j].originalText = Undefined

C4_Witness ==
    \E j \in Jobs : Received(j) /\ jobs[j].data.audio.kind = "undefined"

\* C5: every job ends with exactly one terminal event: it is never left
\* without one, it never has two, and once it is over it has one, as its
\* last event.
C5_ExactlyOneTerminalEvent ==
    \A j \in Jobs :
        Received(j)
        => /\ ~Abandoned(j)
           /\ Cardinality(TerminalEvents(j)) <= 1
           /\ jobs[j].pc = "done" <=> TerminalEvents(j) = {Len(jobs[j].emitted)}

\* C6 as stated: every translated-audio event has a transcription-update of
\* the same job before it.
C6_UpdateAlwaysBeforeResult ==
    \A j \in Jobs :
        \A i \in EventsOf(j, "translated-audio") :
            \E k \in EventsOf(j, "transcription-update") : k < i

\* C6 as amended: a transcription-update is never emitted after the job's
\* translated-audio, and a job whose transcript came from an STT model has
\* one before its translated-audio; a job that fell back to the mock
\* transcript has none.
C6_UpdateBeforeResult ==
    \A j \in Jobs :
        /\ \A i \in EventsOf(j, "translated-audio") :
              /\ \A k \in EventsOf(j, "transcription-update") : k < i
              /\ jobs[j].originalText # MockSttText
                    => EventsOf(j, "transcription-update") # {}
        /\ jobs[j].originalText = MockSttText
              => EventsOf(j, "transcription-update") = {}

C6_Witness ==
    \E j \in Jobs :
        /\ EventsOf(j, "translated-audio") # {}
        /\ EventsOf(j, "transcription-update") # {}

\* C7: when the declared or detected source language is the target language,
\* translatedText is originalText, no translation provider is called, and
\* synthesis is called on that text.
C7_SameLanguageShortCircuit ==
    \A j \in Jobs :
        (Synthesizing(j) /\ jobs[j].detectedSourceLang = jobs[j].targetLang)
        => /\ jobs[j].translatedText = jobs[j].originalText
           /\ \A c \in CallsOf(j) : ~IsTranslationCall(c)
           /\ [api |-> Gtts, input |-> jobs[j].originalText] \in CallsOf(j)
           /\ \A c \in CallsOf(j) : IsSynthesisCall(c) => c.input = jobs[j].originalText

C7_Witness ==
    \E j \in Jobs :
        /\ jobs[j].sourceLang = "auto"
        /\ jobs[j].detectedSourceLang = jobs[j].targetLang
        /\ EventsOf(j, "translated-audio") # {}

\* C8: a job with audio that is not over can always go on: the answer it
\* waits for, whatever it is, leads to a next step of the job.
C8_EventualCompletion ==
    \A j \in Jobs :
        (Received(j) /\ ~AudioAbsent(j) /\ jobs[j].pc # "done")
        => ENABLED JobNext(j)

\* C9: jobs that run at the same time do not touch each other: the audio a
\* job returns holds its own bytes only, no job is left pending, and the
\* temporary file a job saves to is there, holds no other job's bytes and has
\* no other job's stream open on it.
C9_ConcurrentJobsIndependent ==
    \A j \in Jobs :
        /\ EventsOf(j, "translated-audio") # {} => jobs[j].translatedAudio.of = {j}
        /\ jobs[j].pc # "hung"
        /\ jobs[j].pc \in {"gtts_save", "gtts_saved"}
              => /\ jobs[j].stream # "orphan"
                 /\ tmpdir[jobs[j].tmpFile].exists
                 /\ tmpdir[jobs[j].tmpFile].of \subseteq {j}
                 /\ Streaming(j, jobs[j].tmpFile) = {}

C11_HealthStatus ==
    /\ ~HUGGING_FACE_TOKEN => health.probes = 0 /\ health.pc # "probe"
    /\ health.pc = "done"
          => /\ health.status = "healthy" <=> (HUGGING_FACE_TOKEN /\ health.probe = "ok")
             /\ health.status # "healthy" => health.status = "degraded"
             /\ health.apiAccessible => health.huggingFace
             /\ health.huggingFace <=> HUGGING_FACE_TOKEN

C11_Witness ==
    /\ health.pc = "done"
    /\ HUGGING_FACE_TOKEN
    /\ health.probe = "error"
    /\ health.status = "degraded"

\* C12: without the token no request is sent to the provider: no job calls
\* an STT, detection, translation or synthesis model of it.
C12_NoRequestWithoutToken ==
    ~HUGGING_FACE_TOKEN
    => \A j \in Jobs : \A c \in CallsOf(j) : ~IsHuggingFaceCall(c)

\* the browser has handled the translated-audio event of job j, whose audio
\* is the placeholder
PlaceholderHandled(j) ==
    /\ client[j] # NotPlayed
    /\ jobs[j].translatedAudio.by = "mock"

\* C13 as stated: the placeholder is never played, and the browser speaks the
\* translated text of the event.
C13_PlaceholderAlwaysSpoken ==
    \A j \in Jobs :
        PlaceholderHandled(j)
        => /\ client[j].played = "speech"
           /\ client[j].spoken = jobs[j].translatedText

\* C13 as amended: the placeholder is never played; the browser speaks the
\* translated text of the event when it is not empty, and reports an error
\* and speaks nothing when it is empty.
C13_PlaceholderSpokenOrReported ==
    \A j \in Jobs :
        PlaceholderHandled(j)
        => IF jobs[j].translatedText # << >>
           THEN /\ client[j].played = "speech"
                /\ client[j].spoken = jobs[j].translatedText
           ELSE /\ client[j].played = "error"
                /\ client[j].spoken = Undefined

C13_Witness ==
    \E j \in Jobs :
        /\ PlaceholderHandled(j)
        /\ client[j].played = "speech"
        /\ jobs[j].translatedText # << >>

\* C14: a connection gets the connected event exactly once, when it is
\* established, with its own socket id; the handling of an audio-stream
\* event, to the end of the job, emits no connected event.
C14_ConnectedOnce ==
    \A j \in Jobs :
        /\ sockets[j].emitted = IF sockets[j] # NoSocket THEN <<Connected(j)>> ELSE << >>
        /\ EventsOf(j, "connected") = {}
        /\ Received(j) => sockets[jobs[j].socket] # NoSocket

C14_Witness ==
    \E j \in Jobs :
        /\ jobs[j].pc = "done"
        /\ sockets[jobs[j].socket].connected
        /\ EventsOf(j, "translated-audio") # {}

\* C15: the STT models are called in the order whisper-base, whisper-large-v3,
\* before any other provider; while the chain runs there is no transcript;
\* after it the transcript is the one a model returned, and then no model
\* after that one was called, or it is the mock, and then both models were
\* called.
C15_SttChainOrder ==
    \A j \in Jobs :
        LET stt == SttCalls(j) IN
        /\ Prefix(stt, << [api |-> <<"openai/whisper-base">>, input |-> AudioInput],
                          [api |-> <<"openai/whisper-large-v3">>, input |-> AudioInput] >>)
        /\ Prefix(stt, jobs[j].calls)
        /\ jobs[j].pc = "stt"
              => /\ jobs[j].calls = stt
                 /\ Len(stt) = jobs[j].idx
                 /\ jobs[j].originalText = Undefined
                 /\ jobs[j].emitted = << >>
        /\ (jobs[j].pc # "stt" /\ jobs[j].calls # << >>)
              => IF jobs[j].originalText = MockSttText
                 THEN Len(stt) = 2 /\ EventsOf(j, "transcription-update") = {}
                 ELSE /\ jobs[j].originalText = SttText
                      /\ jobs[j].emitted[1] = Event("transcription-update", SttText, NoAudio)

C15_Witness ==
    \E j \in Jobs :
        /\ Len(SttCalls(j)) = 2
        /\ jobs[j].originalText = SttText
        /\ jobs[j].pc = "done"

\* the synthesis providers in the order of the chain, for a target language
SynthesisChain(targetLang) ==
    <<"gtts", TtsModel(targetLang), "suno/bark", "espnet/kan-bayashi_ljspeech_vits",
      "microsoft/speecht5_tts">>

C18_PivotOnlyWithoutEnglish ==
    \A j \in Jobs :
        LET r == jobs[j]
            m == ModelTranslationCalls(j)
        IN  /\ Len(m) >= 2 => r.detectedSourceLang # "en" /\ r.targetLang # "en"
            /\ (Synthesizing(j) /\ r.translatedText = Rendered(r.originalText, r.targetLang))
                  => Len(m) <= 1
            /\ (Len(m) = 1 /\ r.pc # "tr_direct"
                  /\ (r.detectedSourceLang = "en" \/ r.targetLang = "en"))
                  => /\ Synthesizing(j)
                     /\ r.translatedText \in
                           { Rendered(r.originalText, r.targetLang),
                             <<"[Translated to ", r.targetLang, "] ">> \o r.originalText }

C18_Witness ==
    \E j \in Jobs :
        /\ jobs[j].targetLang = "en"
        /\ jobs[j].detectedSourceLang = "fr"
        /\ Len(ModelTranslationCalls(j)) = 1
        /\ jobs[j].translatedText = <<"[Translated to ", "en", "] ">> \o jobs[j].originalText

TranslationExhausted(j) ==
    /\ Synthesizing(j)
    /\ TranslationCalls(j) # << >>
    /\ jobs[j].translatedText \notin
          { << >>, Rendered(jobs[j].originalText, jobs[j].targetLang),
            Rendered(Rendered(jobs[j].originalText, "en"), jobs[j].targetLang) }

C21_MockTranscript ==
    \A j \in Jobs :
        (/\ Len(SttCalls(j)) = Len(sttModels)
         /\ jobs[j].pc # "stt"
         /\ EventsOf(j, "transcription-update") = {})
        => LET r == jobs[j] IN
           /\ r.originalText = <<"This is a test translation from the mock service">>
           /\ Len(r.calls) >= 3
           /\ r.calls[3].input = r.originalText
           /\ IF r.sourceLang = "auto" THEN IsDetectCall(r.calls[3])
              ELSE IsTranslationCall(r.calls[3]) \/ IsSynthesisCall(r.calls[3])
           /\ EventsOf(j, "error") # {} => DetectionHasFailed(j)
           /\ (Synthesizing(j) /\ TranslationCalls(j) = << >>)
                 => r.translatedText = r.originalText

C21_Witness ==
    \E j \in Jobs :
        /\ jobs[j].originalText = MockSttText
        /\ jobs[j].sourceLang = "auto"
        /\ TranslationCalls(j) # << >>
        /\ EventsOf(j, "translated-audio") # {}

\* the stage a request belongs to
Stage(c) ==
    CASE IsSttCall(c) -> 1
      [] IsDetectCall(c) -> 2
      [] IsTranslationCall(c) -> 3
      [] IsSynthesisCall(c) -> 4
      [] OTHER -> 0

\* the request job j waits for, by its place in the code
Awaited(j) ==
    CASE jobs[j].pc = "stt" -> 1
      [] jobs[j].pc = "detect" -> 2
      [] jobs[j].pc \in {"tr_google", "tr_direct", "tr_pivot1", "tr_pivot2"} -> 3
      [] jobs[j].pc \in {"gtts_save", "gtts_saved", "hftts", "hung"} -> 4
      [] OTHER -> 0

\* C22: the requests of a job are made stage after stage: STT, then
\* detection, then translation, then synthesis; detection and translation
\* requests are made with the transcript known, synthesis requests with the
\* translation known; a job that waits, waits for its last request; a step
\* of a job leaves at most one new request unanswered (only gtts, which can
\* refuse at once, is followed by another request in the same step), and a
\* job that is over makes none.
C22_StagesInSequence ==
    /\ [](\A j \in Jobs :
            LET c == jobs[j].calls IN
            /\ \A i \in DOMAIN c : \A k \in DOMAIN c :
                  i < k => Stage(c[i]) >= 1 /\ Stage(c[i]) <= Stage(c[k])
            /\ \A i \in DOMAIN c :
                  /\ Stage(c[i]) \in {2, 3} => jobs[j].originalText # Undefined
                  /\ Stage(c[i]) = 4 => jobs[j].translatedText # Undefined
            /\ Awaited(j) # 0 => c # << >> /\ Stage(c[Len(c)]) = Awaited(j)
            /\ jobs[j].pc = "stt" => jobs[j].originalText = Undefined
            /\ Awaited(j) \in {1, 2, 3} => jobs[j].translatedText = Undefined)
    /\ [][\A j \in Jobs :
            /\ Len(jobs'[j].calls) >= Len(jobs[j].calls)
            /\ SubSeq(jobs'[j].calls, 1, Len(jobs[j].calls)) = jobs[j].calls
            /\ \A i \in DOMAIN jobs'[j].calls :
                  (i > Len(jobs[j].calls) /\ i < Len(jobs'[j].calls))
                     => jobs'[j].calls[i].api = <<"gtts">>
            /\ jobs[j].pc \in {"done", "hung"} => jobs'[j].calls = jobs[j].calls]_vars

C22_Witness ==
    \E j \in Jobs :
        /\ jobs[j].pc = "hftts"
        /\ DetectCalls(j) # << >>
        /\ Len(TranslationCalls(j)) = 3

\* C23: a detector is called exactly when sourceLang is 'auto', once, on the
\* transcript: the cloud detector when the client exists, else the model;
\* with a declared language none is called and the language is used as it
\* is; the language a detector returned is the source of the same-language
\* check and of the translation requests.
C23_DetectionIffAuto ==
    \A j \in Jobs :
        LET r == jobs[j]
            det == DetectCalls(j)
            tr == ModelTranslationCalls(j)
        IN  (r.originalText # Undefined)
            => /\ IF r.sourceLang = "auto"
                  THEN det = << [api |-> IF googleTranslateClient
                                         THEN <<"google.detect">>
                                         ELSE <<"papluca/xlm-roberta-base-language-detection">>,
                                 input |-> r.originalText] >>
                  ELSE det = << >> /\ r.detectedSourceLang = r.sourceLang
               /\ (r.sourceLang = "auto" /\ r.pc # "detect" /\ ~DetectionHasFailed(j))
                     => r.detectedSourceLang \in DetectedLangs
               /\ tr # << >>
                     => /\ r.detectedSourceLang # "auto"
                        /\ r.detectedSourceLang # r.targetLang
                        /\ tr[1].api = <<"Helsinki-NLP/opus-mt-", r.detectedSourceLang, "-",
                                         r.targetLang>>
               /\ (Synthesizing(j) /\ TranslationCalls(j) = << >>)
                     => r.detectedSourceLang = r.targetLang

C23_Witness ==
    \E j \in Jobs :
        /\ jobs[j].sourceLang = "auto"
        /\ ~googleTranslateClient
        /\ jobs[j].detectedSourceLang = "ja"
        /\ ModelTranslationCalls(j) # << >>

\* the job is over with the len bytes the model it waited for has answered
AcceptedFrom(j, len) ==
    /\ jobs'[j].pc = "done"
    /\ jobs'[j].calls = jobs[j].calls
    /\ jobs'[j].translatedAudio =
          [by |-> jobs[j].calls[Len(jobs[j].calls)].api[1], len |-> len, of |-> {j}]

\* C24: every synthesis model of the Hugging Face chain, the one of the
\* language and the fallback ones, treats its answer by one rule: a body of
\* less than 100 bytes is a failed attempt, a body of 100 bytes or more is
\* the audio of the job.
C24_UniformMinimumLength ==
    [][\A j \in Jobs : \A len \in {99, 100, 101} :
          (\/ HfTtsAnswer(j, [st |-> "ok", len |-> len])
           \/ HfFallbackAnswer(j, [st |-> "ok", len |-> len]))
          => IF len < 100 THEN ~AcceptedFrom(j, len) ELSE AcceptedFrom(j, len)]_vars

\* job j is inside its call of textToSpeechWithGoogle
Saving(j) == jobs[j].pc \in {"gtts_save", "gtts_saved"}

\* C27: the temporary file belongs to one call of the free synthesis path:
\* once the call of a job is over, however it ended, the file it named does
\* not exist, unless the call of another job that names the same file is
\* still running.
C27_TempFileScoped ==
    \A j \in Jobs :
        (jobs[j].tmpFile \in Stamps /\ ~Saving(j))
        => \/ ~tmpdir[jobs[j].tmpFile].exists
           \/ \E k \in Jobs \ {j} : Saving(k) /\ jobs[k].tmpFile = jobs[j].tmpFile

\* C30: a job emits transcription-update at most once, as its first event,
\* in the step that handles the answer of an STT model, when no detector, no
\* translation and no synthesis provider had been called; the text it
\* carries is not the mock transcript, it is the transcript of the job, and
\* every detection and every first-hand translation request carries it.
C30_TranscriptionUpdate ==
    /\ [](\A j \in Jobs :
            LET r == jobs[j]
                tu == EventsOf(j, "transcription-update")
            IN  /\ Cardinality(tu) <= 1
                /\ tu # {}
                     => /\ tu = {1}
                        /\ r.emitted[1].text = r.originalText
                        /\ r.originalText = SttText
                        /\ r.originalText # <<"This is a test translation from the mock service">>
                        /\ r.pc # "stt"
                        /\ \A c \in CallsOf(j) :
                              (\/ IsDetectCall(c)
                               \/ c.api = GoogleTranslateApi
                               \/ c.api = OpusMt(r.detectedSourceLang, r.targetLang)
                               \/ c.api = OpusMt(r.detectedSourceLang, "en"))
                              => c.input = r.emitted[1].text
                        /\ (Synthesizing(j) /\ TranslationCalls(j) = << >>)
                              => r.translatedText = r.emitted[1].text)
    /\ [][\A j \in Jobs :
            (EventsOf(j, "transcription-update") # {})' /\ EventsOf(j, "transcription-update") = {}
            => /\ jobs[j].pc = "stt"
               /\ jobs[j].emitted = << >>
               /\ \A c \in CallsOf(j) : IsSttCall(c)
               /\ \E resp \in SttResponses : SttValid(resp) /\ SttAnswer(j, resp)]_vars

C30_Witness ==
    \E j \in Jobs :
        /\ EventsOf(j, "transcription-update") = {1}
        /\ DetectCalls(j) # << >>
        /\ ModelTranslationCalls(j) # << >>
        /\ EventsOf(j, "translated-audio") = {2}

\* the step is job j handling the answer resp of the provider it waited for
AnswerStep(j, resp) ==
    \/ SttAnswer(j, resp)
    \/ DetectAnswer(j, resp)
    \/ DirectAnswer(j, resp)
    \/ PivotFirstAnswer(j, resp)
    \/ PivotSecondAnswer(j, resp)
    \/ HfTtsAnswer(j, resp)
    \/ HfFallbackAnswer(j, resp)

\* the step is a step of job j, and the history tells the answer it handled
Handled(j) == jobs'[j] # jobs[j] /\ answered'.on /\ answered'.job = j

\* C25: an answer without the expected shape is a failed attempt, handled as
\* a transport error is: after an STT body without a text the step is the
\* one an error leads to, and the next model is asked when there is one;
\* after a translation body of no known format, or without text, the step is
\* the one an error leads to, and the direct strategy is followed by the
\* pivot when the pair allows it.
C25_MalformedIsFailure ==
    [][\A j \in Jobs :
          (Handled(j) /\ answered'.resp.st = "ok")
          => LET r == jobs[j]
                 resp == answered'.resp
             IN  /\ (r.pc = "stt" /\ resp.text = <<"undefined">>)
                      => /\ SttAnswer(j, [st |-> "error", text |-> <<"undefined">>])
                         /\ jobs'[j].emitted = r.emitted
                         /\ r.idx < Len(sttModels)
                               => /\ jobs'[j].pc = "stt"
                                  /\ jobs'[j].calls =
                                        Append(r.calls, [api |-> <<sttModels[r.idx + 1]>>,
                                                         input |-> <<"<audio>">>])
                 /\ (/\ r.pc \in {"tr_direct", "tr_pivot1", "tr_pivot2"}
                     /\ resp.shape = "other" \/ resp.text = << >>)
                      => /\ AnswerStep(j, [st |-> "error", shape |-> "other", text |-> << >>])
                         /\ (/\ r.pc = "tr_direct"
                             /\ r.detectedSourceLang # "en"
                             /\ r.targetLang # "en")
                               => /\ jobs'[j].pc = "tr_pivot1"
                                  /\ jobs'[j].calls =
                                        Append(r.calls,
                                               [api |-> OpusMt(r.detectedSourceLang, "en"),
                                                input |-> r.originalText])]_vars

C25_Witness ==
    \E j \in Jobs :
        /\ answered = [on |-> TRUE, job |-> j,
                       resp |-> [st |-> "ok", shape |-> "other",
                                 text |-> Rendered(jobs[j].originalText, jobs[j].targetLang)]]
        /\ Len(SttCalls(j)) = 2
        /\ jobs[j].originalText = SttText
        /\ jobs[j].pc = "tr_pivot1"

C28_OneJobPerConnection ==
    \A j \in Jobs : \A k \in Jobs \ {j} :
        (InProgress(j) /\ InProgress(k)) => jobs[j].socket # jobs[k].socket

\* C29: a job whose connection has gone while it was in progress is not
\* aborted: as long as its terminal event is not emitted it is not left
\* waiting for something that never comes.
C29_NoCancellation ==
    \A j \in Jobs :
        (InProgress(j) /\ sockets[jobs[j].socket].disconnected) => ~Abandoned(j)

\* C31: a job with sourceLang 'auto' asks one detector, once. With the cloud
\* client its detector is the only one: when it fails the model is not
\* asked, no translation and no synthesis provider is asked, and the job is
\* over with one error event that quotes the failed detection.
C31_OneDetector ==
    \A j \in Jobs :
        LET r == jobs[j] IN
        /\ Len(DetectCalls(j)) <= 1
        /\ (googleTranslateClient /\ DetectionHasFailed(j))
              => /\ DetectCalls(j) = << [api |-> <<"google.detect">>, input |-> r.originalText] >>
                 /\ r.calls[Len(r.calls)].api = <<"google.detect">>
                 /\ r.pc = "done"
                 /\ EventsOf(j, "translated-audio") = {}
                 /\ Cardinality(EventsOf(j, "error")) = 1
                 /\ LET m == r.emitted[Len(r.emitted)] IN
                    /\ m.ev = "error"
                    /\ SubSeq(m.text, 1, 2) = <<"Pipeline failed: ", "Language detection failed: ">>

C31_Witness ==
    \E j \in Jobs :
        /\ googleTranslateClient
        /\ DetectionHasFailed(j)
        /\ jobs[j].originalText = SttText
        /\ EventsOf(j, "error") = {2}

\* C35: a job whose event has no sourceLang runs as 'auto': once it has a
\* transcript a detector has been asked. A job whose event has no targetLang
\* runs with 'es': the first model of its Hugging Face synthesis is the
\* Spanish one. No translation request and no synthesis is made with an
\* undefined language, and none with 'auto' as the source.
C35_DefaultLanguages ==
    \A j \in Jobs :
        LET r == jobs[j]
            tr == ModelTranslationCalls(j)
            hf == SelectSeq(r.calls, LAMBDA c : c.api \in { <<m>> : m \in TtsModels })
        IN  r.calls # << >>
            => /\ r.data.sourceLang = UNDEF
                    => /\ r.sourceLang = "auto"
                       /\ r.originalText # Undefined => Len(DetectCalls(j)) = 1
               /\ r.data.targetLang = UNDEF
                    => /\ r.targetLang = "es"
                       /\ hf # << >> => hf[1].api = <<"facebook/mms-tts-spa">>
               /\ (TranslationCalls(j) # << >> \/ Synthesizing(j))
                    => /\ r.detectedSourceLang \notin {UNDEF, "auto"}
                       /\ r.targetLang # UNDEF
               /\ \A i \in DOMAIN tr :
                    \A k \in DOMAIN tr[i].api : tr[i].api[k] \notin {UNDEF, "auto"}

C35_Witness ==
    \E j \in Jobs :
        /\ jobs[j].data.sourceLang = UNDEF
        /\ jobs[j].data.targetLang = UNDEF
        /\ jobs[j].detectedSourceLang = "ja"
        /\ jobs[j].pc = "done"
        /\ <<"facebook/mms-tts-spa">> \in { jobs[j].calls[i].api : i \in DOMAIN jobs[j].calls }
        /\ <<"Helsinki-NLP/opus-mt-", "ja", "-", "es">>
              \in { jobs[j].calls[i].api : i \in DOMAIN jobs[j].calls }

\* C36: the first model the Hugging Face synthesis asks is the one the map
\* has for the target language (ja: facebook/mms-tts-jpn) and, for a target
\* language the map does not have (en, ko), the Spanish one; the models that
\* follow it are the fallback ones, in their order.
C36_FirstSynthesisModel ==
    \A j \in Jobs :
        LET r == jobs[j]
            hf == SelectSeq(r.calls, LAMBDA c : c.api \in { <<m>> : m \in TtsModels })
        IN  hf # << >>
            => /\ r.targetLang = "ja" => hf[1].api = <<"facebook/mms-tts-jpn">>
               /\ r.targetLang \in {"en", "ko", "es"} => hf[1].api = <<"facebook/mms-tts-spa">>
               /\ hf[1].api \notin { <<fallbackModels[i]>> : i \in DOMAIN fallbackModels }
               /\ hf[1].input = r.translatedText
               /\ \A i \in 2..Len(hf) : hf[i].api = <<fallbackModels[i - 1]>>

C36_Witness ==
    \E j \in Jobs :
        /\ jobs[j].data.targetLang = "ko"
        /\ jobs[j].pc = "done"
        /\ \E i \in DOMAIN jobs[j].calls :
              /\ i < Len(jobs[j].calls)
              /\ jobs[j].calls[i].api = <<"facebook/mms-tts-spa">>
              /\ jobs[j].calls[i + 1].api = <<"suno/bark">>

\* C37: the router returns no empty translation of a model. The translated
\* text of a job whose last translation request went to a model is never
\* empty; a direct model that answers { translation: "" } is followed by the
\* pivot when the pair allows one, and by the substitute of the exhausted
\* router when not; a pivot leg that answers { translation: "" } is followed
\* by that substitute, and by no further request to a translation model.
C37_NoEmptyTranslation ==
    /\ [](\A j \in Jobs :
            LET tr == TranslationCalls(j) IN
            (Synthesizing(j) /\ tr # << >> /\ IsModelTranslationCall(tr[Len(tr)]))
            => jobs[j].translatedText # << >>)
    /\ [][\A j \in Jobs :
            LET r == jobs[j]
                exhausted == <<"[Translated to ", r.targetLang, "] ">> \o r.originalText
            IN  (/\ Handled(j)
                 /\ r.pc \in {"tr_direct", "tr_pivot1", "tr_pivot2"}
                 /\ answered'.resp = [st |-> "ok", shape |-> "object", text |-> << >>])
                => IF r.pc = "tr_direct" /\ r.detectedSourceLang # "en" /\ r.targetLang # "en"
                   THEN /\ jobs'[j].pc = "tr_pivot1"
                        /\ jobs'[j].translatedText = Undefined
                        /\ jobs'[j].calls =
                              Append(r.calls, [api |-> OpusMt(r.detectedSourceLang, "en"),
                                               input |-> r.originalText])
                   ELSE /\ jobs'[j].translatedText = exhausted
                        /\ SelectSeq(jobs'[j].calls, IsTranslationCall) = TranslationCalls(j)]_vars

C37_Witness ==
    \E j \in Jobs :
        /\ answered = [on |-> TRUE, job |-> j,
                       resp |-> [st |-> "ok", shape |-> "object", text |-> << >>]]
        /\ Len(ModelTranslationCalls(j)) = 3
        /\ jobs[j].translatedText = mockTranslation(jobs[j].originalText, "fr", jobs[j].targetLang)

\* C32: the audio of every translated-audio event is the placeholder of 15
\* bytes, which the browser takes for invalid, or the audio of a provider of
\* at least 100 bytes, which the browser does not take for invalid.
C32_DeliveredAudioLengths ==
    \A j \in Jobs :
        \A i \in EventsOf(j, "translated-audio") :
            LET audio == jobs[j].emitted[i].audio IN
            IF audio.by = "mock"
            THEN audio.len = MockAudioBytes /\ Unplayable(audio)
            ELSE audio.len >= MinTtsBytes /\ ~Unplayable(audio)

\* C33: the page has at most one job with the server: it emits no
\* audio-stream event before it has handled the translated-audio or error
\* event of the one it emitted before, and while that event is awaited no
\* recording is asked for and none runs.
C33_OneJobInFlight ==
    LET handled == Cardinality({ j \in Jobs : client[j] # NotPlayed }) IN
    /\ Len(browser.sent) <= handled + 1
    /\ Len(browser.sent) > handled
          => /\ browser.pending = << >>
             /\ \A k \in DOMAIN browser.recorders : browser.recorders[k].state # "recording"

\* C34: every audio-stream event of the page has a payload of more than 0
\* bytes that holds every chunk its recorder has delivered, whether the
\* recorder was stopped by stopRecording, which empties the chunk buffer
\* before the recorder's last events, or has stopped by itself, the buffer
\* being emptied after them; and a recording that has ended and has
\* delivered audio was sent.
C34_PayloadComplete ==
    /\ \A i \in DOMAIN browser.sent :
          LET p == browser.sent[i]
              delivered == browser.recorders[p.by].delivered
          IN  /\ BlobSize(p.chunks) > 0
              /\ browser.recorders[p.by].state = "inactive"
              /\ \A n \in DOMAIN delivered :
                    \E m \in DOMAIN p.chunks : p.chunks[m] = delivered[n]
    /\ \A k \in DOMAIN browser.recorders :
          (browser.recorders[k].state = "inactive"
             /\ BlobSize(browser.recorders[k].delivered) > 0)
          => \E i \in DOMAIN browser.sent : browser.sent[i].by = k

C34_Witness ==
    /\ Len(browser.sent) = 1
    /\ Len(browser.recorders) = 2
    /\ browser.sent[1].by = 2
    /\ browser.recorders[1].delivered = << [of |-> 1, size |-> 0] >>
    /\ browser.sent[1].chunks = << [of |-> 2, size |-> MinAudioBytes] >>
    /\ browser.audioChunks = << >>

====
